---- MODULE Spec2Model ----
(***************************************************************************)
(* Model of regenerate_templates.py: the script that reads three contract  *)
(* templates and embeds them into the raw-string constants of              *)
(* cli/src/commands/init.rs with three re.sub calls, writes the file back  *)
(* and prints a report.                                                    *)
(*                                                                         *)
(* A text is a sequence of units.  A unit is one character, except that    *)
(* the fixed text `const <NAME>_TEMPLATE_LIB: &str = r#` (the head of a    *)
(* pattern, up to but excluding its opening double quote) is one unit: no  *)
(* proper part of it takes part in a match.                                *)
(*                                                                         *)
(* The contents of the files are drawn from TemplateTexts and TargetTexts: *)
(* plain text, a multi-byte character, a backslash escape re accepts, one  *)
(* it rejects, the closing delimiter, and a declaration inside a template; *)
(* targets with all, some, none and repeated regions.  A file that cannot  *)
(* be opened is not in `present`.  A completed run may be followed by      *)
(* another on the files it left, up to MaxRuns runs.                       *)
(***************************************************************************)
EXTENDS Integers, Sequences, FiniteSets

(***************************************************************************)
(* Units                                                                   *)
(***************************************************************************)
DQUOTE == "dquote"      \* the character "
HASH == "#"
SEMI == ";"
BSLASH == "bslash"      \* the character \
LF == "LF"              \* the newline character
EACUTE == "U+00E9"      \* a character that takes two bytes in UTF-8
RE_ERROR == "re.error"  \* marks a replacement template that re rejects

Names == {"BASIC", "TIMELOCK", "WEIGHTED"}

\* The literal head of the pattern of a name, without the opening quote.
Prefix(name) ==
    CASE name = "BASIC" -> "const BASIC_TEMPLATE_LIB: &str = r#"
      [] name = "TIMELOCK" -> "const TIMELOCK_TEMPLATE_LIB: &str = r#"
      [] name = "WEIGHTED" -> "const WEIGHTED_TEMPLATE_LIB: &str = r#"

Prefixes == {Prefix(n) : n \in Names}

\* A declaration of a name with the given payload, as the f-strings build it.
Decl(name, payload) == <<Prefix(name), DQUOTE>> \o payload \o <<DQUOTE, HASH, SEMI>>

(***************************************************************************)
(* len() and the size of the text in bytes                                 *)
(***************************************************************************)
\* Code points of a unit.
CharCount(u) ==
    CASE u = Prefix("BASIC") -> 35
      [] u = Prefix("TIMELOCK") -> 38
      [] u = Prefix("WEIGHTED") -> 38
      [] OTHER -> 1

\* Bytes of a unit as stored in the template file (UTF-8).
ByteCount(u) == IF u = EACUTE THEN 2 ELSE CharCount(u)

RECURSIVE PyLenFrom(_, _)
PyLenFrom(s, i) == IF i > Len(s) THEN 0 ELSE CharCount(s[i]) + PyLenFrom(s, i + 1)

RECURSIVE Utf8LenFrom(_, _)
Utf8LenFrom(s, i) == IF i > Len(s) THEN 0 ELSE ByteCount(s[i]) + Utf8LenFrom(s, i + 1)

\* The number of bytes the text occupies in its file.
Utf8Len(s) == Utf8LenFrom(s, 1)

\* len(str): the number of code points.
PyLen(s) == PyLenFrom(s, 1)

(***************************************************************************)
(* re: the replacement template and the substitution                       *)
(***************************************************************************)
\* Whether the unit begins with an ASCII letter.
AsciiLetter(u) == u \in {"n", "d", "o"} \cup Prefixes

\* sre_parse.parse_template on a replacement string, from position i:
\* backslash-n becomes a newline, a doubled backslash a single one, a
\* backslash before any other ASCII letter is an error, and a backslash
\* before anything else stays with what follows it.
RECURSIVE ParseTemplate(_, _)
ParseTemplate(r, i) ==
    IF i > Len(r) THEN <<>>
    ELSE IF r[i] = BSLASH /\ i < Len(r)
         THEN LET c == r[i + 1] IN
              IF c = "n" THEN <<LF>> \o ParseTemplate(r, i + 2)
              ELSE IF c = BSLASH THEN <<BSLASH>> \o ParseTemplate(r, i + 2)
              ELSE IF AsciiLetter(c) THEN <<RE_ERROR>>
              ELSE <<BSLASH, c>> \o ParseTemplate(r, i + 2)
         ELSE <<r[i]>> \o ParseTemplate(r, i + 1)

Failed(text) == \E k \in 1..Len(text) : text[k] = RE_ERROR

\* Whether the closing delimiter "#; stands at position j of s.
ClosesAt(s, j) ==
    /\ j + 2 <= Len(s)
    /\ s[j] = DQUOTE
    /\ s[j + 1] = HASH
    /\ s[j + 2] = SEMI

\* The last position of the match of the pattern of a name that starts at
\* position i of s (non-greedy, DOTALL), or 0 when none starts there.
MatchEnd(name, s, i) ==
    IF i + 1 <= Len(s) /\ s[i] = Prefix(name) /\ s[i + 1] = DQUOTE
    THEN LET J == {j \in (i + 2)..Len(s) : ClosesAt(s, j)} IN
         IF J = {} THEN 0
         ELSE (CHOOSE j \in J : \A k \in J : j <= k) + 2
    ELSE 0

\* The scan of re.sub with count = 0: every non-overlapping match, leftmost
\* first, is replaced by the expanded template; the rest is copied.
RECURSIVE SubFrom(_, _, _, _)
SubFrom(name, filter, s, i) ==
    IF i > Len(s) THEN <<>>
    ELSE LET e == MatchEnd(name, s, i) IN
         IF e = 0 THEN <<s[i]>> \o SubFrom(name, filter, s, i + 1)
         ELSE filter \o SubFrom(name, filter, s, e + 1)

\* The same scan stopping after the first match (count = 1).
RECURSIVE SubFirstFrom(_, _, _, _)
SubFirstFrom(name, filter, s, i) ==
    IF i > Len(s) THEN <<>>
    ELSE LET e == MatchEnd(name, s, i) IN
         IF e = 0 THEN <<s[i]>> \o SubFirstFrom(name, filter, s, i + 1)
         ELSE filter \o SubSeq(s, e + 1, Len(s))

\* The replacement string of a name: its f-string around the template text.
Repl(name, lib) == Decl(name, lib)

\* re.sub called with count=1: only the first region is replaced.
ReSubCountOne(name, lib, s) ==
    LET filter == ParseTemplate(Repl(name, lib), 1) IN
    IF Failed(filter) THEN <<RE_ERROR>> ELSE SubFirstFrom(name, filter, s, 1)

\* The pattern with a greedy `.*`: a match runs to the last closing delimiter.
MatchEndGreedy(name, s, i) ==
    IF i + 1 <= Len(s) /\ s[i] = Prefix(name) /\ s[i + 1] = DQUOTE
    THEN LET J == {j \in (i + 2)..Len(s) : ClosesAt(s, j)} IN
         IF J = {} THEN 0
         ELSE (CHOOSE j \in J : \A k \in J : j >= k) + 2
    ELSE 0

RECURSIVE SubFromGreedy(_, _, _, _)
SubFromGreedy(name, filter, s, i) ==
    IF i > Len(s) THEN <<>>
    ELSE LET e == MatchEndGreedy(name, s, i) IN
         IF e = 0 THEN <<s[i]>> \o SubFromGreedy(name, filter, s, i + 1)
         ELSE filter \o SubFromGreedy(name, filter, s, e + 1)

\* re.sub with the greedy pattern.
ReSubGreedy(name, lib, s) ==
    LET filter == ParseTemplate(Repl(name, lib), 1) IN
    IF Failed(filter) THEN <<RE_ERROR>> ELSE SubFromGreedy(name, filter, s, 1)

\* re.sub(pattern of name, replacement of name, s, flags=re.DOTALL).  The
\* template is parsed before the scan, so a bad escape raises even when
\* nothing matches.
ReSub(name, lib, s) ==
    LET filter == ParseTemplate(Repl(name, lib), 1) IN
    IF Failed(filter) THEN <<RE_ERROR>> ELSE SubFrom(name, filter, s, 1)

(***************************************************************************)
(* The files the script is run on                                          *)
(***************************************************************************)
MaxRuns == 2

Files == Names \cup {"CLI"}

OLD == <<"o">>

TemplateTexts ==
    { <<"d">>,
      <<EACUTE, "n">>,
      <<BSLASH, "n">>,
      <<BSLASH, "d">>,
      <<"d", DQUOTE, HASH, SEMI>>,
      Decl("TIMELOCK", <<"n">>) }

TargetTexts ==
    { <<"n">> \o Decl("BASIC", OLD) \o <<LF>> \o Decl("TIMELOCK", OLD)
          \o <<LF>> \o Decl("WEIGHTED", OLD) \o <<LF>>,
      Decl("BASIC", OLD) \o <<LF>> \o Decl("WEIGHTED", OLD),
      Decl("BASIC", OLD) \o <<"n">> \o Decl("BASIC", <<"d">>)
          \o Decl("TIMELOCK", OLD) \o Decl("WEIGHTED", OLD),
      <<"o", LF>>,
      Decl("WEIGHTED", OLD) \o Decl("TIMELOCK", OLD) \o Decl("BASIC", OLD)
          \o <<"o", DQUOTE, HASH, SEMI>> }

VARIABLES
    tplFile,       \* the three template files on disk, by name
    target,        \* cli/src/commands/init.rs on disk
    present,       \* the files that exist and can be opened
    basic_lib, timelock_lib, weighted_lib, cli_content,
    pc,            \* the statement the process is at
    err,           \* the exception that ended the process, if any
    stdout,        \* the lines printed by the process
    run,           \* the number of the current run
    target0,       \* target as it was when the current run started
    opened,        \* the current run has opened target for writing
    writes,        \* the times the current run has written target
    log,           \* the operations the current run has completed
    prev           \* how the previous run ended and what it left in target

vars == <<tplFile, target, present, basic_lib, timelock_lib, weighted_lib,
          cli_content, pc, err, stdout, run, target0, opened, writes, log, prev>>

disk == <<tplFile, present>>
ghost == <<run, target0, prev>>

Init ==
    /\ tplFile \in [Names -> TemplateTexts]
    /\ target \in TargetTexts
    /\ present \in {Files} \cup {Files \ {f} : f \in Files}
    /\ basic_lib = <<>>
    /\ timelock_lib = <<>>
    /\ weighted_lib = <<>>
    /\ cli_content = <<>>
    /\ pc = "read_basic"
    /\ err = "none"
    /\ stdout = <<>>
    /\ run = 1
    /\ target0 = target
    /\ opened = FALSE
    /\ writes = 0
    /\ log = <<>>
    /\ prev = [ended |-> "none", text |-> <<>>]

\* An unhandled exception: the process stops where it is.
Raise(e) ==
    /\ pc' = "aborted"
    /\ err' = e

ReadBasic ==
    /\ pc = "read_basic"
    /\ IF "BASIC" \in present
       THEN /\ basic_lib' = tplFile["BASIC"]
            /\ pc' = "read_timelock"
            /\ log' = Append(log, "read_basic")
            /\ err' = err
       ELSE /\ Raise("OSError")
            /\ UNCHANGED <<basic_lib, log>>
    /\ UNCHANGED <<disk, ghost, target, timelock_lib, weighted_lib, cli_content,
                   stdout, opened, writes>>

ReadTimelock ==
    /\ pc = "read_timelock"
    /\ IF "TIMELOCK" \in present
       THEN /\ timelock_lib' = tplFile["TIMELOCK"]
            /\ pc' = "read_weighted"
            /\ log' = Append(log, "read_timelock")
            /\ err' = err
       ELSE /\ Raise("OSError")
            /\ UNCHANGED <<timelock_lib, log>>
    /\ UNCHANGED <<disk, ghost, target, basic_lib, weighted_lib, cli_content,
                   stdout, opened, writes>>

\* The read with the failure swallowed: a missing file reads as empty.
ReadWeightedUnchecked ==
    /\ pc = "read_weighted"
    /\ weighted_lib' = IF "WEIGHTED" \in present THEN tplFile["WEIGHTED"] ELSE <<>>
    /\ pc' = "read_cli"
    /\ log' = Append(log, "read_weighted")
    /\ UNCHANGED <<disk, ghost, target, basic_lib, timelock_lib, cli_content,
                   stdout, opened, writes, err>>

ReadWeighted ==
    /\ pc = "read_weighted"
    /\ IF "WEIGHTED" \in present
       THEN /\ weighted_lib' = tplFile["WEIGHTED"]
            /\ pc' = "read_cli"
            /\ log' = Append(log, "read_weighted")
            /\ err' = err
       ELSE /\ Raise("OSError")
            /\ UNCHANGED <<weighted_lib, log>>
    /\ UNCHANGED <<disk, ghost, target, basic_lib, timelock_lib, cli_content,
                   stdout, opened, writes>>

ReadCli ==
    /\ pc = "read_cli"
    /\ IF "CLI" \in present
       THEN /\ cli_content' = target
            /\ pc' = "sub_basic"
            /\ log' = Append(log, "read_cli")
            /\ err' = err
       ELSE /\ Raise("OSError")
            /\ UNCHANGED <<cli_content, log>>
    /\ UNCHANGED <<disk, ghost, target, basic_lib, timelock_lib, weighted_lib,
                   stdout, opened, writes>>

\* One re.sub statement: cli_content = re.sub(..., cli_content, ...).
Substitute(name, lib, text, here, next) ==
    /\ pc = here
    /\ LET out == ReSub(name, lib, text) IN
       IF Failed(out)
       THEN /\ Raise("re.error")
            /\ UNCHANGED <<cli_content, log>>
       ELSE /\ cli_content' = out
            /\ pc' = next
            /\ log' = Append(log, here)
            /\ err' = err
    /\ UNCHANGED <<disk, ghost, target, basic_lib, timelock_lib, weighted_lib,
                   stdout, opened, writes>>

SubBasic == Substitute("BASIC", basic_lib, cli_content, "sub_basic", "sub_timelock")

\* The second substitution applied to the text of the file instead of the
\* output of the first.
SubTimelockOnFileText ==
    Substitute("TIMELOCK", timelock_lib, target, "sub_timelock", "sub_weighted")

SubTimelock ==
    Substitute("TIMELOCK", timelock_lib, cli_content, "sub_timelock", "sub_weighted")

SubWeighted == Substitute("WEIGHTED", weighted_lib, cli_content, "sub_weighted", "write")

\* The proper and improper prefixes of a text.
PrefixesOf(text) == {SubSeq(text, 1, k) : k \in 0..Len(text)}

\* open(..., 'w') truncates the file and f.write with the close that
\* follows stores the whole text.
WriteBack ==
    /\ pc = "write"
    /\ "CLI" \in present
    /\ target' = cli_content
    /\ opened' = TRUE
    /\ writes' = writes + 1
    /\ pc' = "print"
    /\ log' = Append(log, "write")
    /\ UNCHANGED <<disk, ghost, basic_lib, timelock_lib, weighted_lib, cli_content,
                   stdout, err>>

\* open(..., 'w') fails: nothing is truncated.
WriteBackOpenFails ==
    /\ pc = "write"
    /\ Raise("OSError")
    /\ UNCHANGED <<disk, ghost, target, basic_lib, timelock_lib, weighted_lib,
                   cli_content, stdout, opened, writes, log>>

\* What a file opened in mode 'a' holds when the write fails part way.
AppendFailOutcomes(old, text) == {old \o p : p \in PrefixesOf(text)}

\* What a file opened in mode 'w' holds when the write, the flush or the
\* close fails: the file was truncated by the open, and any part of the text
\* from its start may have reached it.
WriteFailOutcomes(old, text) == PrefixesOf(text)

\* open(..., 'w') succeeds and the write fails (disk full, I/O error).
WriteBackWriteFails ==
    /\ pc = "write"
    /\ "CLI" \in present
    /\ target' \in WriteFailOutcomes(target, cli_content)
    /\ opened' = TRUE
    /\ Raise("OSError")
    /\ UNCHANGED <<disk, ghost, basic_lib, timelock_lib, weighted_lib, cli_content,
                   stdout, writes, log>>

\* The four print statements.
Report ==
    /\ pc = "print"
    /\ stdout' = stdout \o << <<"regenerated successfully">>,
                              <<"Basic template", PyLen(basic_lib)>>,
                              <<"Timelock template", PyLen(timelock_lib)>>,
                              <<"Weighted template", PyLen(weighted_lib)>> >>
    /\ pc' = "done"
    /\ log' = Append(log, "print")
    /\ UNCHANGED <<disk, ghost, target, basic_lib, timelock_lib, weighted_lib,
                   cli_content, opened, writes, err>>

\* The script is run again on the files the completed run left.
Rerun ==
    /\ pc = "done"
    /\ run < MaxRuns
    /\ run' = run + 1
    /\ prev' = [ended |-> pc, text |-> target]
    /\ target0' = target
    /\ basic_lib' = <<>>
    /\ timelock_lib' = <<>>
    /\ weighted_lib' = <<>>
    /\ cli_content' = <<>>
    /\ pc' = "read_basic"
    /\ err' = "none"
    /\ stdout' = <<>>
    /\ opened' = FALSE
    /\ writes' = 0
    /\ log' = <<>>
    /\ UNCHANGED <<disk, target>>

Next ==
    \/ ReadBasic
    \/ ReadTimelock
    \/ ReadWeighted
    \/ ReadCli
    \/ SubBasic
    \/ SubTimelock
    \/ SubWeighted
    \/ WriteBack
    \/ WriteBackOpenFails
    \/ WriteBackWriteFails
    \/ Report
    \/ Rerun

Spec == Init /\ [][Next]_vars

(***************************************************************************)
(* Regions of a text, as the specification speaks of them: a region of a   *)
(* name starts at the head of its declaration followed by the opening      *)
(* quote and ends with the first closing delimiter after it.               *)
(***************************************************************************)
RegionEnd(name, s, i) ==
    IF i < Len(s) /\ s[i] = Prefix(name) /\ s[i + 1] = DQUOTE
       /\ \E j \in (i + 2)..(Len(s) - 2) : <<s[j], s[j + 1], s[j + 2]>> = <<DQUOTE, HASH, SEMI>>
    THEN 2 + CHOOSE j \in (i + 2)..(Len(s) - 2) :
                 /\ <<s[j], s[j + 1], s[j + 2]>> = <<DQUOTE, HASH, SEMI>>
                 /\ \A k \in (i + 2)..(j - 1) :
                        <<s[k], s[k + 1], s[k + 2]>> # <<DQUOTE, HASH, SEMI>>
    ELSE 0

\* The regions of a name in s from position i on, left to right, none
\* overlapping another: a sequence of <<first, last>> positions.
RECURSIVE RegionsFrom(_, _, _)
RegionsFrom(name, s, i) ==
    IF i > Len(s) THEN <<>>
    ELSE LET e == RegionEnd(name, s, i) IN
         IF e = 0 THEN RegionsFrom(name, s, i + 1)
         ELSE << <<i, e>> >> \o RegionsFrom(name, s, e + 1)

Regions(name, s) == RegionsFrom(name, s, 1)

HasRegion(name, s) == Regions(name, s) # <<>>

\* The payload of the first region of a name.
Payload(name, s) ==
    LET r == Regions(name, s)[1] IN SubSeq(s, r[1] + 2, r[2] - 3)

\* s with its k-th region of a name replaced by text.
ReplaceKth(name, text, s, k) ==
    LET r == Regions(name, s)[k] IN
    SubSeq(s, 1, r[1] - 1) \o text \o SubSeq(s, r[2] + 1, Len(s))

\* s with the regions k, k - 1, ..., 1 of a name replaced by text, one by one.
RECURSIVE ReplaceDownFrom(_, _, _, _)
ReplaceDownFrom(name, text, s, k) ==
    IF k = 0 THEN s
    ELSE LET r == Regions(name, s)[k] IN
         ReplaceDownFrom(name, text,
             SubSeq(s, 1, r[1] - 1) \o text \o SubSeq(s, r[2] + 1, Len(s)), k - 1)

\* The positions of s outside every region of a name.
OutsidePositions(name, s) ==
    LET r == Regions(name, s) IN
    {p \in 1..Len(s) : \A k \in 1..Len(r) : p < r[k][1] \/ p > r[k][2]}

\* The text of s outside every region of a name.
Outside(name, s) ==
    LET keep == OutsidePositions(name, s) IN
    [j \in 1..Cardinality(keep) |->
        s[CHOOSE p \in keep : Cardinality({x \in keep : x <= p}) = j]]

RECURSIVE IsSubseqFrom(_, _, _, _)
IsSubseqFrom(a, i, b, j) ==
    IF i > Len(a) THEN TRUE
    ELSE IF j > Len(b) THEN FALSE
    ELSE IF a[i] = b[j] THEN IsSubseqFrom(a, i + 1, b, j + 1)
    ELSE IsSubseqFrom(a, i, b, j + 1)

IsPrefix(a, b) == Len(a) <= Len(b) /\ a = SubSeq(b, 1, Len(a))

IsSuffix(a, b) == Len(a) <= Len(b) /\ a = SubSeq(b, Len(b) - Len(a) + 1, Len(b))

\* t keeps what s holds outside the regions of a name: all of s when there
\* is no region; otherwise the text before the first region at the start,
\* the text after the last region at the end, and the text between regions
\* in its order in between.
FramePreserved(name, s, t) ==
    LET r == Regions(name, s) IN
    IF r = <<>> THEN t = s
    ELSE /\ IsPrefix(SubSeq(s, 1, r[1][1] - 1), t)
         /\ IsSuffix(SubSeq(s, r[Len(r)][2] + 1, Len(s)), t)
         /\ IsSubseqFrom(Outside(name, s), 1, t, 1)

\* The library text a substitution statement embeds, by the statement.
LibAt(here) ==
    CASE here = "sub_basic" -> basic_lib
      [] here = "sub_timelock" -> timelock_lib
      [] here = "sub_weighted" -> weighted_lib

NameAt(here) ==
    CASE here = "sub_basic" -> "BASIC"
      [] here = "sub_timelock" -> "TIMELOCK"
      [] here = "sub_weighted" -> "WEIGHTED"

SubSteps == {"sub_basic", "sub_timelock", "sub_weighted"}

Order == <<"read_basic", "read_timelock", "read_weighted", "read_cli",
           "sub_basic", "sub_timelock", "sub_weighted", "write", "print">>

(***************************************************************************)
(* Claims                                                                  *)
(***************************************************************************)

\* C1: after a run that succeeded, every name that had a region in the
\* target before the run has a region in the written target whose payload
\* is the content of its template file, character for character.
C1_EmbeddedVerbatim ==
    pc = "done" =>
        \A n \in Names :
            HasRegion(n, target0) =>
                HasRegion(n, target) /\ Payload(n, target) = tplFile[n]

\* C2: idempotence: the target a second run in succession writes, the
\* template files unchanged, is the target the first run left.
C2_Idempotent == (pc = "done" /\ run >= 2) => target = prev.text

\* C3: when a template file is absent the run never gets past the reads of
\* the templates: it never opens or writes the target, which stays as it
\* was before the run, and where it has ended it was aborted by the
\* file-access failure.
C3_MissingTemplateAborts ==
    Names \ present # {} =>
        /\ pc \in {"read_basic", "read_timelock", "read_weighted", "aborted"}
        /\ pc = "aborted" => err = "OSError"
        /\ ~opened
        /\ writes = 0
        /\ target = target0

\* The weighted template is absent: the run was aborted after it had read
\* the other two, the target untouched.
C3_Witness ==
    /\ pc = "aborted"
    /\ "WEIGHTED" \notin present
    /\ basic_lib = tplFile["BASIC"]
    /\ timelock_lib = tplFile["TIMELOCK"]
    /\ target = target0

\* C4 as claimed: a run aborted by a file-access failure leaves the target
\* either as it was before the run or holding the whole final text.
C4_OnlyTwoStates ==
    (pc = "aborted" /\ err = "OSError") =>
        \/ target = target0
        \/ opened /\ target = cli_content

\* C4 amended: a run aborted by a file-access failure leaves the target as
\* it was before the run when the run had not opened it for writing, and
\* otherwise holding a prefix (empty, partial or whole) of the final text.
C4_UnmodifiedOrPrefix ==
    (pc = "aborted" /\ err = "OSError") =>
        IF opened THEN IsPrefix(target, cli_content) ELSE target = target0

\* A write that failed part way: the target holds a proper, non-empty
\* prefix of the final text.
C4_Witness ==
    /\ pc = "aborted"
    /\ err = "OSError"
    /\ opened
    /\ target # <<>>
    /\ target # cli_content
    /\ target # target0

\* C5: a substitution whose name has no region in the text it is given
\* leaves the text as it is and raises nothing: the next statement runs.
C5_NoMatchIsNoOp ==
    [][\A here \in SubSteps :
          (pc = here /\ ~HasRegion(NameAt(here), cli_content)) =>
              (cli_content' = cli_content /\ pc' # "aborted")]_vars

\* C6: the count printed for each template is the number of bytes of the
\* content of its file.
C6_ReportedBytes ==
    pc = "done" =>
        /\ stdout[2][2] = Utf8Len(tplFile["BASIC"])
        /\ stdout[3][2] = Utf8Len(tplFile["TIMELOCK"])
        /\ stdout[4][2] = Utf8Len(tplFile["WEIGHTED"])

\* C7: a run ends normally, with the target written and then the success
\* message and the three counts printed, or abnormally because a file
\* operation failed, with nothing printed.
C7_TwoWaysToEnd ==
    /\ pc = "done" =>
          /\ err = "none"
          /\ Len(stdout) = 4
          /\ writes = 1
          /\ target = cli_content
    /\ pc = "aborted" => (err = "OSError" /\ stdout = <<>>)
    /\ stdout # <<>> => (err = "none" /\ writes = 1)

\* C8: the operations of a run happen in the one fixed order; each
\* substitution works on the output of the one before it, the first on the
\* text read from the target; the target is opened and written only after
\* the four reads and the three substitutions, at most once, and once in a
\* run that completes.
C8_FixedOrder ==
    /\ IsPrefix(log, Order)
    /\ writes <= 1
    /\ pc = "done" => (writes = 1 /\ log = Order)
    /\ (opened \/ writes > 0 \/ target # target0) => IsPrefix(SubSeq(Order, 1, 7), log)
    /\ pc \in {"write", "print", "done"} =>
          cli_content =
              ReSub("WEIGHTED", tplFile["WEIGHTED"],
                  ReSub("TIMELOCK", tplFile["TIMELOCK"],
                      ReSub("BASIC", tplFile["BASIC"], target0)))

\* A completed run on a target with all three regions.
C8_Witness ==
    /\ pc = "done"
    /\ log = Order
    /\ \A n \in Names : HasRegion(n, target0)
    /\ target # target0
    /\ tplFile["BASIC"] # tplFile["TIMELOCK"]

\* C9: frame: no step changes a template file; only the write changes the
\* target, and it stores the substituted text; and each substitution keeps,
\* in place and in order, the text outside the regions of its name.
C9_Frame ==
    [][/\ tplFile' = tplFile
       /\ present' = present
       /\ target' # target => (pc = "write" /\ (pc' = "print" => target' = cli_content))
       /\ \A here \in SubSteps :
              (pc = here /\ pc' # "aborted") =>
                  FramePreserved(NameAt(here), cli_content, cli_content')]_vars

\* A completed run that rewrote a target with text before, between and
\* after its three regions, the text at both ends still in place.
C9_Witness ==
    /\ pc = "done"
    /\ target # target0
    /\ \A n \in Names : HasRegion(n, target0) /\ Outside(n, target0) # <<>>
    /\ target[1] = "n"
    /\ target[Len(target)] = LF

\* C10 as claimed: a substitution given a text with more than one region of
\* its name replaces one of them and leaves the others as they were.
C10_OnlyOneRegion ==
    [][\A here \in SubSteps :
          (pc = here /\ pc' # "aborted" /\ Len(Regions(NameAt(here), cli_content)) > 1) =>
              \E k \in 1..Len(Regions(NameAt(here), cli_content)) :
                  cli_content' =
                      ReplaceKth(NameAt(here),
                                 ParseTemplate(Repl(NameAt(here), LibAt(here)), 1),
                                 cli_content, k)]_vars

\* C10 amended: a substitution replaces every region of its name in the
\* text it is given (the regions taken left to right, none overlapping
\* another), each by the same new declaration.
C10_EveryRegion ==
    [][\A here \in SubSteps :
          (pc = here /\ pc' # "aborted") =>
              cli_content' =
                  ReplaceDownFrom(NameAt(here),
                                  ParseTemplate(Repl(NameAt(here), LibAt(here)), 1),
                                  cli_content,
                                  Len(Regions(NameAt(here), cli_content)))]_vars

\* The first substitution has run on a target with two BASIC regions and
\* both now hold the new payload.
C10_Witness ==
    /\ pc = "sub_timelock"
    /\ Len(Regions("BASIC", target0)) = 2
    /\ Len(Regions("BASIC", cli_content)) = 2
    /\ Payload("BASIC", cli_content) = basic_lib
    /\ Payload("BASIC", SubSeq(cli_content, Regions("BASIC", cli_content)[2][1],
                               Len(cli_content))) = basic_lib
    /\ cli_content # target0

====
